---- MODULE Spec2Model ----
(***************************************************************************)
(* Model of the enviro-mind backend's AQI computation and weather-warning  *)
(* derivation (backend/app/services/copernicus_data_service.py and         *)
(* backend/app/services/copernicus_service.py).                            *)
(*                                                                         *)
(* Concentrations are Python floats in the source.  Here a concentration   *)
(* is an integer number of 1/Unit of the pollutant's unit (Unit = 20, so   *)
(* 12.1 is 242 and the point 12.05 between two breakpoints is 241).        *)
(* Temperatures, humidity, precipitation and UV index are whole numbers.   *)
(***************************************************************************)
EXTENDS Integers, Sequences, FiniteSets

VARIABLES
    now_month,   \* datetime.utcnow().month, the wall clock's month
    environ,     \* os.environ: the three threshold variables
    request,     \* the reading a caller holds: [kind, arg]
    pc,          \* "idle", "pending" once a reading is held, then the operation that ran
    ret,         \* what the call returned (or the exception it raised)
    again,       \* what a second call with the identical argument returned
    call,        \* the frame of a handler in progress: its operation, its
                 \* position and the two readings it awaits
    response,    \* what the handler answered: a value, an HTTP error or an exception
    now,         \* datetime.utcnow() in whole hours
    db           \* the environmental_data collection: id -> document

vars == <<now_month, environ, request, pc, ret, again, call, response, now, db>>

\* The variables of the handlers and of the collection, which the AQI and
\* warning calculations leave alone.
handler_vars == <<call, response, now, db>>
\* The variables of the calls of the calculators.
calculator_vars == <<request, pc, ret, again>>

(***************************************************************************)
(* Values                                                                  *)
(***************************************************************************)
\* An optional number: None (a value that is None, a dict key or an
\* environment variable that is missing) or Some(v).
None == <<>>
Some(v) == <<v>>
Val(x) == x[1]

NotCalled == [status |-> "not_called"]
NoRequest == [kind |-> "none"]
NoCall == [op |-> "none"]
NoResponse == [status |-> "none"]

Months == 1..12
Pollutants == {"pm2p5", "pm10", "co", "no2", "o3", "so2"}

\* Grid points per unit of concentration.
Unit == 2 * 10
\* whole.tenths as a grid point, e.g. C(12, 1) is 12.1
C(whole, tenths) == whole * Unit + tenths * (Unit \div 10)

(***************************************************************************)
(* _linear_scale                                                           *)
(***************************************************************************)
\* Python's int(): truncation toward zero of num/den, den > 0.
TruncDiv(num, den) ==
    IF num >= 0 THEN num \div den ELSE -((-num) \div den)

\* The arguments <<value, in_min, in_max>> on the grid for which IEEE-754
\* double arithmetic evaluates (value - in_min) * (out_max - out_min) /
\* (in_max - in_min) + out_min to just short of the integer the exact
\* quotient is, so that int() yields the integer one nearer to zero.
FloatShort ==
    { <<C(37, 8), 0, C(54, 0)>>,        \* pm10, o3: 37.8 -> 34.999.. -> 34
      <<C(4, 6), C(4, 5), C(9, 4)>>,    \* co 4.6 -> 51
      <<C(8, 2), C(4, 5), C(9, 4)>>,    \* co 8.2 -> 87
      <<C(8, 7), C(4, 5), C(9, 4)>>,    \* co 8.7 -> 92
      <<C(9, 2), C(4, 5), C(9, 4)>>,    \* co 9.2 -> 97
      <<C(18, 9), 0, C(35, 0)>>,        \* so2 18.9 -> 26
      <<C(34, 3), 0, C(35, 0)>>,        \* so2 34.3 -> 48
      <<-C(18, 9), 0, C(35, 0)>>,       \* so2 -18.9 -> -26
      <<-C(20, 4), 0, C(12, 0)>>,       \* pm2p5 -20.4 -> -84
      <<-C(11, 0), 0, C(4, 4)>>,        \* co -11.0 -> -124
      <<-C(19, 8), 0, C(4, 4)>>,        \* co -19.8 -> -224
      <<-C(22, 0), 0, C(4, 4)>> }       \* co -22.0 -> -249

ExactScale(value, in_min, in_max, out_min, out_max) ==
    TruncDiv((value - in_min) * (out_max - out_min) + out_min * (in_max - in_min),
             in_max - in_min)

\* _linear_scale rounding to the nearest integer (round() in place of int()).
linear_scale_round(value, in_min, in_max, out_min, out_max) ==
    LET num == (value - in_min) * (out_max - out_min) + out_min * (in_max - in_min)
        den == in_max - in_min
    IN  IF num >= 0 THEN (2 * num + den) \div (2 * den)
        ELSE -((2 * (-num) + den) \div (2 * den))

linear_scale(value, in_min, in_max, out_min, out_max) ==
    LET exact == ExactScale(value, in_min, in_max, out_min, out_max)
    IN  IF <<value, in_min, in_max>> \in FloatShort
        THEN (IF exact > 0 THEN exact - 1 ELSE exact + 1)
        ELSE exact

(***************************************************************************)
(* CopernicusDataService: the six sub-index helpers                        *)
(***************************************************************************)

\* _calculate_pm2p5_aqi with the second segment's index band starting at 50.
calculate_pm2p5_aqi_band(concentration) ==
    IF concentration <= C(12, 0)
    THEN linear_scale(concentration, 0, C(12, 0), 0, 50)
    ELSE IF concentration <= C(35, 4)
    THEN linear_scale(concentration, C(12, 1), C(35, 4), 50, 100)
    ELSE IF concentration <= C(55, 4)
    THEN linear_scale(concentration, C(35, 5), C(55, 4), 101, 150)
    ELSE IF concentration <= C(150, 4)
    THEN linear_scale(concentration, C(55, 5), C(150, 4), 151, 200)
    ELSE IF concentration <= C(250, 4)
    THEN linear_scale(concentration, C(150, 5), C(250, 4), 201, 300)
    ELSE linear_scale(concentration, C(250, 5), C(500, 4), 301, 500)

calculate_pm2p5_aqi(concentration) ==
    IF concentration <= C(12, 0)
    THEN linear_scale(concentration, 0, C(12, 0), 0, 50)
    ELSE IF concentration <= C(35, 4)
    THEN linear_scale(concentration, C(12, 1), C(35, 4), 51, 100)
    ELSE IF concentration <= C(55, 4)
    THEN linear_scale(concentration, C(35, 5), C(55, 4), 101, 150)
    ELSE IF concentration <= C(150, 4)
    THEN linear_scale(concentration, C(55, 5), C(150, 4), 151, 200)
    ELSE IF concentration <= C(250, 4)
    THEN linear_scale(concentration, C(150, 5), C(250, 4), 201, 300)
    ELSE linear_scale(concentration, C(250, 5), C(500, 4), 301, 500)

calculate_pm10_aqi(concentration) ==
    IF concentration <= C(54, 0)
    THEN linear_scale(concentration, 0, C(54, 0), 0, 50)
    ELSE IF concentration <= C(154, 0)
    THEN linear_scale(concentration, C(55, 0), C(154, 0), 51, 100)
    ELSE IF concentration <= C(254, 0)
    THEN linear_scale(concentration, C(155, 0), C(254, 0), 101, 150)
    ELSE IF concentration <= C(354, 0)
    THEN linear_scale(concentration, C(255, 0), C(354, 0), 151, 200)
    ELSE IF concentration <= C(424, 0)
    THEN linear_scale(concentration, C(355, 0), C(424, 0), 201, 300)
    ELSE linear_scale(concentration, C(425, 0), C(604, 0), 301, 500)

\* _calculate_co_aqi with its first segment starting at 0.1.
calculate_co_aqi_offset(concentration) ==
    IF concentration <= C(4, 4)
    THEN linear_scale(concentration, C(0, 1), C(4, 4), 0, 50)
    ELSE IF concentration <= C(9, 4)
    THEN linear_scale(concentration, C(4, 5), C(9, 4), 51, 100)
    ELSE IF concentration <= C(12, 4)
    THEN linear_scale(concentration, C(9, 5), C(12, 4), 101, 150)
    ELSE IF concentration <= C(15, 4)
    THEN linear_scale(concentration, C(12, 5), C(15, 4), 151, 200)
    ELSE IF concentration <= C(30, 4)
    THEN linear_scale(concentration, C(15, 5), C(30, 4), 201, 300)
    ELSE linear_scale(concentration, C(30, 5), C(50, 4), 301, 500)

calculate_co_aqi(concentration) ==
    IF concentration <= C(4, 4)
    THEN linear_scale(concentration, 0, C(4, 4), 0, 50)
    ELSE IF concentration <= C(9, 4)
    THEN linear_scale(concentration, C(4, 5), C(9, 4), 51, 100)
    ELSE IF concentration <= C(12, 4)
    THEN linear_scale(concentration, C(9, 5), C(12, 4), 101, 150)
    ELSE IF concentration <= C(15, 4)
    THEN linear_scale(concentration, C(12, 5), C(15, 4), 151, 200)
    ELSE IF concentration <= C(30, 4)
    THEN linear_scale(concentration, C(15, 5), C(30, 4), 201, 300)
    ELSE linear_scale(concentration, C(30, 5), C(50, 4), 301, 500)

calculate_no2_aqi(concentration) ==
    IF concentration <= C(53, 0)
    THEN linear_scale(concentration, 0, C(53, 0), 0, 50)
    ELSE IF concentration <= C(100, 0)
    THEN linear_scale(concentration, C(54, 0), C(100, 0), 51, 100)
    ELSE IF concentration <= C(360, 0)
    THEN linear_scale(concentration, C(101, 0), C(360, 0), 101, 150)
    ELSE IF concentration <= C(649, 0)
    THEN linear_scale(concentration, C(361, 0), C(649, 0), 151, 200)
    ELSE IF concentration <= C(1249, 0)
    THEN linear_scale(concentration, C(650, 0), C(1249, 0), 201, 300)
    ELSE linear_scale(concentration, C(1250, 0), C(2049, 0), 301, 500)

\* _calculate_o3_aqi with readings above 404 capped at 500.
calculate_o3_aqi_capped(concentration) ==
    IF concentration <= C(54, 0)
    THEN linear_scale(concentration, 0, C(54, 0), 0, 50)
    ELSE IF concentration <= C(70, 0)
    THEN linear_scale(concentration, C(55, 0), C(70, 0), 51, 100)
    ELSE IF concentration <= C(85, 0)
    THEN linear_scale(concentration, C(71, 0), C(85, 0), 101, 150)
    ELSE IF concentration <= C(105, 0)
    THEN linear_scale(concentration, C(86, 0), C(105, 0), 151, 200)
    ELSE IF concentration <= C(200, 0)
    THEN linear_scale(concentration, C(106, 0), C(200, 0), 201, 300)
    ELSE IF concentration > C(404, 0)
    THEN 500
    ELSE linear_scale(concentration, C(201, 0), C(404, 0), 301, 500)

calculate_o3_aqi(concentration) ==
    IF concentration <= C(54, 0)
    THEN linear_scale(concentration, 0, C(54, 0), 0, 50)
    ELSE IF concentration <= C(70, 0)
    THEN linear_scale(concentration, C(55, 0), C(70, 0), 51, 100)
    ELSE IF concentration <= C(85, 0)
    THEN linear_scale(concentration, C(71, 0), C(85, 0), 101, 150)
    ELSE IF concentration <= C(105, 0)
    THEN linear_scale(concentration, C(86, 0), C(105, 0), 151, 200)
    ELSE IF concentration <= C(200, 0)
    THEN linear_scale(concentration, C(106, 0), C(200, 0), 201, 300)
    ELSE linear_scale(concentration, C(201, 0), C(404, 0), 301, 500)

calculate_so2_aqi(concentration) ==
    IF concentration <= C(35, 0)
    THEN linear_scale(concentration, 0, C(35, 0), 0, 50)
    ELSE IF concentration <= C(75, 0)
    THEN linear_scale(concentration, C(36, 0), C(75, 0), 51, 100)
    ELSE IF concentration <= C(185, 0)
    THEN linear_scale(concentration, C(76, 0), C(185, 0), 101, 150)
    ELSE IF concentration <= C(304, 0)
    THEN linear_scale(concentration, C(186, 0), C(304, 0), 151, 200)
    ELSE IF concentration <= C(604, 0)
    THEN linear_scale(concentration, C(305, 0), C(604, 0), 201, 300)
    ELSE linear_scale(concentration, C(605, 0), C(1004, 0), 301, 500)

(***************************************************************************)
(* CopernicusService: its own copy of _linear_scale and of the helpers     *)
(***************************************************************************)
svc_linear_scale(value, in_min, in_max, out_min, out_max) ==
    LET exact == ExactScale(value, in_min, in_max, out_min, out_max)
    IN  IF <<value, in_min, in_max>> \in FloatShort
        THEN (IF exact > 0 THEN exact - 1 ELSE exact + 1)
        ELSE exact

svc_calculate_pm2p5_aqi(concentration) ==
    IF concentration <= C(12, 0)
    THEN svc_linear_scale(concentration, 0, C(12, 0), 0, 50)
    ELSE IF concentration <= C(35, 4)
    THEN svc_linear_scale(concentration, C(12, 1), C(35, 4), 51, 100)
    ELSE IF concentration <= C(55, 4)
    THEN svc_linear_scale(concentration, C(35, 5), C(55, 4), 101, 150)
    ELSE IF concentration <= C(150, 4)
    THEN svc_linear_scale(concentration, C(55, 5), C(150, 4), 151, 200)
    ELSE IF concentration <= C(250, 4)
    THEN svc_linear_scale(concentration, C(150, 5), C(250, 4), 201, 300)
    ELSE svc_linear_scale(concentration, C(250, 5), C(500, 4), 301, 500)

svc_calculate_pm10_aqi(concentration) ==
    IF concentration <= C(54, 0)
    THEN svc_linear_scale(concentration, 0, C(54, 0), 0, 50)
    ELSE IF concentration <= C(154, 0)
    THEN svc_linear_scale(concentration, C(55, 0), C(154, 0), 51, 100)
    ELSE IF concentration <= C(254, 0)
    THEN svc_linear_scale(concentration, C(155, 0), C(254, 0), 101, 150)
    ELSE IF concentration <= C(354, 0)
    THEN svc_linear_scale(concentration, C(255, 0), C(354, 0), 151, 200)
    ELSE IF concentration <= C(424, 0)
    THEN svc_linear_scale(concentration, C(355, 0), C(424, 0), 201, 300)
    ELSE svc_linear_scale(concentration, C(425, 0), C(604, 0), 301, 500)

svc_calculate_co_aqi(concentration) ==
    IF concentration <= C(4, 4)
    THEN svc_linear_scale(concentration, 0, C(4, 4), 0, 50)
    ELSE IF concentration <= C(9, 4)
    THEN svc_linear_scale(concentration, C(4, 5), C(9, 4), 51, 100)
    ELSE IF concentration <= C(12, 4)
    THEN svc_linear_scale(concentration, C(9, 5), C(12, 4), 101, 150)
    ELSE IF concentration <= C(15, 4)
    THEN svc_linear_scale(concentration, C(12, 5), C(15, 4), 151, 200)
    ELSE IF concentration <= C(30, 4)
    THEN svc_linear_scale(concentration, C(15, 5), C(30, 4), 201, 300)
    ELSE svc_linear_scale(concentration, C(30, 5), C(50, 4), 301, 500)

svc_calculate_no2_aqi(concentration) ==
    IF concentration <= C(53, 0)
    THEN svc_linear_scale(concentration, 0, C(53, 0), 0, 50)
    ELSE IF concentration <= C(100, 0)
    THEN svc_linear_scale(concentration, C(54, 0), C(100, 0), 51, 100)
    ELSE IF concentration <= C(360, 0)
    THEN svc_linear_scale(concentration, C(101, 0), C(360, 0), 101, 150)
    ELSE IF concentration <= C(649, 0)
    THEN svc_linear_scale(concentration, C(361, 0), C(649, 0), 151, 200)
    ELSE IF concentration <= C(1249, 0)
    THEN svc_linear_scale(concentration, C(650, 0), C(1249, 0), 201, 300)
    ELSE svc_linear_scale(concentration, C(1250, 0), C(2049, 0), 301, 500)

svc_calculate_o3_aqi(concentration) ==
    IF concentration <= C(54, 0)
    THEN svc_linear_scale(concentration, 0, C(54, 0), 0, 50)
    ELSE IF concentration <= C(70, 0)
    THEN svc_linear_scale(concentration, C(55, 0), C(70, 0), 51, 100)
    ELSE IF concentration <= C(85, 0)
    THEN svc_linear_scale(concentration, C(71, 0), C(85, 0), 101, 150)
    ELSE IF concentration <= C(105, 0)
    THEN svc_linear_scale(concentration, C(86, 0), C(105, 0), 151, 200)
    ELSE IF concentration <= C(200, 0)
    THEN svc_linear_scale(concentration, C(106, 0), C(200, 0), 201, 300)
    ELSE svc_linear_scale(concentration, C(201, 0), C(404, 0), 301, 500)

\* CopernicusService._calculate_so2_aqi with its fourth band reaching 210.
svc_calculate_so2_aqi_wide(concentration) ==
    IF concentration <= C(35, 0)
    THEN svc_linear_scale(concentration, 0, C(35, 0), 0, 50)
    ELSE IF concentration <= C(75, 0)
    THEN svc_linear_scale(concentration, C(36, 0), C(75, 0), 51, 100)
    ELSE IF concentration <= C(185, 0)
    THEN svc_linear_scale(concentration, C(76, 0), C(185, 0), 101, 150)
    ELSE IF concentration <= C(304, 0)
    THEN svc_linear_scale(concentration, C(186, 0), C(304, 0), 151, 210)
    ELSE IF concentration <= C(604, 0)
    THEN svc_linear_scale(concentration, C(305, 0), C(604, 0), 201, 300)
    ELSE svc_linear_scale(concentration, C(605, 0), C(1004, 0), 301, 500)

svc_calculate_so2_aqi(concentration) ==
    IF concentration <= C(35, 0)
    THEN svc_linear_scale(concentration, 0, C(35, 0), 0, 50)
    ELSE IF concentration <= C(75, 0)
    THEN svc_linear_scale(concentration, C(36, 0), C(75, 0), 51, 100)
    ELSE IF concentration <= C(185, 0)
    THEN svc_linear_scale(concentration, C(76, 0), C(185, 0), 101, 150)
    ELSE IF concentration <= C(304, 0)
    THEN svc_linear_scale(concentration, C(186, 0), C(304, 0), 151, 200)
    ELSE IF concentration <= C(604, 0)
    THEN svc_linear_scale(concentration, C(305, 0), C(604, 0), 201, 300)
    ELSE svc_linear_scale(concentration, C(605, 0), C(1004, 0), 301, 500)

(***************************************************************************)
(* AQI from a pollutant reading.  A reading is a function from the keys it *)
(* carries (a subset of Pollutants) to concentrations on the grid.         *)
(***************************************************************************)
\* Python's max() over the values of a dict.
MaxValue(d) == CHOOSE v \in {d[k] : k \in DOMAIN d} :
                   \A k \in DOMAIN d : d[k] <= v


\* _calculate_aqi taking the PM2.5 sub-index for the overall value instead
\* of the maximum.
calculate_aqi_first(air_quality) ==
    IF \E p \in Pollutants : p \notin DOMAIN air_quality
    THEN [status |-> "KeyError"]
    ELSE LET components ==
                 [pm2p5 |-> calculate_pm2p5_aqi(air_quality["pm2p5"]),
                  pm10  |-> calculate_pm10_aqi(air_quality["pm10"]),
                  co    |-> calculate_co_aqi(air_quality["co"]),
                  no2   |-> calculate_no2_aqi(air_quality["no2"]),
                  o3    |-> calculate_o3_aqi(air_quality["o3"]),
                  so2   |-> calculate_so2_aqi(air_quality["so2"])]
         IN  [status |-> "ok", overall |-> components["pm2p5"],
              components |-> components]

\* CopernicusDataService._calculate_aqi: air_quality['pm2p5'] and so on.
calculate_aqi(air_quality) ==
    IF \E p \in Pollutants : p \notin DOMAIN air_quality
    THEN [status |-> "KeyError"]
    ELSE LET components ==
                 [pm2p5 |-> calculate_pm2p5_aqi(air_quality["pm2p5"]),
                  pm10  |-> calculate_pm10_aqi(air_quality["pm10"]),
                  co    |-> calculate_co_aqi(air_quality["co"]),
                  no2   |-> calculate_no2_aqi(air_quality["no2"]),
                  o3    |-> calculate_o3_aqi(air_quality["o3"]),
                  so2   |-> calculate_so2_aqi(air_quality["so2"])]
             overall_aqi == MaxValue(components)
         IN  [status |-> "ok", overall |-> overall_aqi, components |-> components]

\* dict.get(key, 0)
Get(d, key) == IF key \in DOMAIN d THEN d[key] ELSE 0

\* CopernicusService.calculate_aqi: air_quality_data.get("pm2p5", 0) and so
\* on; the result is stamped with datetime.utcnow() (here: its month).
svc_calculate_aqi(air_quality_data) ==
    LET aqi_components ==
            [pm2p5 |-> svc_calculate_pm2p5_aqi(Get(air_quality_data, "pm2p5")),
             pm10  |-> svc_calculate_pm10_aqi(Get(air_quality_data, "pm10")),
             co    |-> svc_calculate_co_aqi(Get(air_quality_data, "co")),
             no2   |-> svc_calculate_no2_aqi(Get(air_quality_data, "no2")),
             o3    |-> svc_calculate_o3_aqi(Get(air_quality_data, "o3")),
             so2   |-> svc_calculate_so2_aqi(Get(air_quality_data, "so2"))]
        overall_aqi == MaxValue(aqi_components)
    IN  [status |-> "ok", overall |-> overall_aqi, components |-> aqi_components,
         timestamp |-> now_month]

(***************************************************************************)
(* Weather warnings                                                        *)
(***************************************************************************)
HeatDefault == 35
ColdDefault == 0
UvDefault == 6

\* float(os.getenv(name, default))
getenv(name, default) ==
    IF environ[name] = None THEN default ELSE Val(environ[name])

Warning(type, severity, message) ==
    [type |-> type, severity |-> severity, message |-> message]

\* The four seasons of _calculate_warnings, from current_month.
is_winter(current_month) == current_month \in {12, 1, 2}
is_spring(current_month) == current_month \in {3, 4, 5}
is_summer(current_month) == current_month \in {6, 7, 8}
\* Fall without November.
is_fall_short(current_month) == current_month \in {9, 10}
is_fall(current_month)   == current_month \in {9, 10, 11}


\* The heat rule with `if` in place of `elif`: both branches may append.
heat_warnings_two_ifs(temp, current_month) ==
    LET heat_threshold == getenv("HEAT_WAVE_TEMP_THRESHOLD", HeatDefault)
    IN  (IF is_spring(current_month) /\ Val(temp) > heat_threshold - 2
         THEN <<Warning("heat_wave", "moderate", "Early season heat alert")>>
         ELSE <<>>)
        \o (IF Val(temp) > heat_threshold
            THEN <<Warning("heat_wave", "high", "Heat wave warning")>>
            ELSE <<>>)

\* Heat warnings: what the first if/elif under "temp is not None" appends.
heat_warnings(temp, current_month) ==
    LET heat_threshold == getenv("HEAT_WAVE_TEMP_THRESHOLD", HeatDefault)
    IN  IF is_spring(current_month) /\ Val(temp) > heat_threshold - 2
        THEN <<Warning("heat_wave", "moderate", "Early season heat alert")>>
        ELSE IF Val(temp) > heat_threshold
        THEN <<Warning("heat_wave", "high", "Heat wave warning")>>
        ELSE <<>>


\* The cold rule without the fall margin of 2 degrees.
cold_warnings_no_margin(temp, current_month) ==
    LET cold_threshold == getenv("COLD_WAVE_TEMP_THRESHOLD", ColdDefault)
    IN  IF is_fall(current_month) /\ Val(temp) < cold_threshold
        THEN <<Warning("cold_wave", "moderate", "Early season cold alert")>>
        ELSE IF Val(temp) < cold_threshold
        THEN <<Warning("cold_wave", "high", "Cold weather warning")>>
        ELSE <<>>

\* Cold warnings: the second if/elif under "temp is not None".
cold_warnings(temp, current_month) ==
    LET cold_threshold == getenv("COLD_WAVE_TEMP_THRESHOLD", ColdDefault)
    IN  IF is_fall(current_month) /\ Val(temp) < cold_threshold + 2
        THEN <<Warning("cold_wave", "moderate", "Early season cold alert")>>
        ELSE IF Val(temp) < cold_threshold
        THEN <<Warning("cold_wave", "high", "Cold weather warning")>>
        ELSE <<>>

\* The temperature block with the cold comparison turned round.
temperature_warnings_cold_above(temp, current_month) ==
    IF temp # None
    THEN heat_warnings(temp, current_month)
         \o (IF Val(temp) > getenv("COLD_WAVE_TEMP_THRESHOLD", ColdDefault)
             THEN <<Warning("cold_wave", "high", "Cold weather warning")>>
             ELSE <<>>)
    ELSE <<>>

temperature_warnings(temp, current_month) ==
    IF temp # None
    THEN heat_warnings(temp, current_month) \o cold_warnings(temp, current_month)
    ELSE <<>>

\* The UV rule without its spring branch.
uv_warnings_no_spring(uv_index, current_month) ==
    IF uv_index # None
    THEN LET uv_threshold == getenv("UV_INDEX_HIGH_THRESHOLD", UvDefault)
         IN  IF Val(uv_index) > uv_threshold
             THEN <<Warning("uv_warning", "moderate", "High UV index warning")>>
             ELSE <<>>
    ELSE <<>>

uv_warnings(uv_index, current_month) ==
    IF uv_index # None
    THEN LET uv_threshold == getenv("UV_INDEX_HIGH_THRESHOLD", UvDefault)
         IN  IF is_spring(current_month) /\ Val(uv_index) > uv_threshold - 1
             THEN <<Warning("uv_warning", "high", "Spring UV warning")>>
             ELSE IF Val(uv_index) > uv_threshold
             THEN <<Warning("uv_warning", "moderate", "High UV index warning")>>
             ELSE <<>>
    ELSE <<>>


\* The precipitation rule grading heavy rain "high".
precipitation_warnings_high_rain(precipitation, temp, current_month) ==
    IF precipitation # None /\ Val(precipitation) > 0
    THEN IF temp # None /\ Val(temp) < 2
         THEN IF is_winter(current_month)
              THEN <<Warning("snowstorm",
                             IF Val(precipitation) > 10 THEN "moderate" ELSE "low",
                             "Snow expected")>>
              ELSE <<Warning("snowstorm", "high", "Unseasonable snow warning")>>
         ELSE IF Val(precipitation) > 25
         THEN <<Warning("heavy_rain", "high", "Heavy rain warning")>>
         ELSE <<>>
    ELSE <<>>

\* The precipitation rule with snow below 0 degrees instead of below 2.
precipitation_warnings_freezing(precipitation, temp, current_month) ==
    IF precipitation # None /\ Val(precipitation) > 0
    THEN IF temp # None /\ Val(temp) < 0
         THEN IF is_winter(current_month)
              THEN <<Warning("snowstorm",
                             IF Val(precipitation) > 10 THEN "moderate" ELSE "low",
                             "Snow expected")>>
              ELSE <<Warning("snowstorm", "high", "Unseasonable snow warning")>>
         ELSE IF Val(precipitation) > 25
         THEN <<Warning("heavy_rain", "moderate", "Heavy rain warning")>>
         ELSE <<>>
    ELSE <<>>

\* The precipitation rule with `if` in place of `elif`: snow and heavy rain
\* may both be appended.
precipitation_warnings_two_ifs(precipitation, temp, current_month) ==
    IF precipitation # None /\ Val(precipitation) > 0
    THEN (IF temp # None /\ Val(temp) < 2
          THEN IF is_winter(current_month)
               THEN <<Warning("snowstorm",
                              IF Val(precipitation) > 10 THEN "moderate" ELSE "low",
                              "Snow expected")>>
               ELSE <<Warning("snowstorm", "high", "Unseasonable snow warning")>>
          ELSE <<>>)
         \o (IF Val(precipitation) > 25
             THEN <<Warning("heavy_rain", "moderate", "Heavy rain warning")>>
             ELSE <<>>)
    ELSE <<>>

precipitation_warnings(precipitation, temp, current_month) ==
    IF precipitation # None /\ Val(precipitation) > 0
    THEN IF temp # None /\ Val(temp) < 2
         THEN IF is_winter(current_month)
              THEN <<Warning("snowstorm",
                             IF Val(precipitation) > 10 THEN "moderate" ELSE "low",
                             "Snow expected")>>
              ELSE <<Warning("snowstorm", "high", "Unseasonable snow warning")>>
         ELSE IF Val(precipitation) > 25
         THEN <<Warning("heavy_rain", "moderate", "Heavy rain warning")>>
         ELSE <<>>
    ELSE <<>>

\* The pollen chain with the weed condition read as
\* (August or September) and temp > 15.
pollen_warnings_gated(humidity, temp, current_month) ==
    LET tree ==
            IF ~is_spring(current_month) THEN "F"
            ELSE IF temp = None THEN "E"
            ELSE IF Val(temp) > 10 /\ Val(humidity) < 70 THEN "T" ELSE "F"
        grass ==
            IF ~(is_summer(current_month) /\ current_month = 6) THEN "F"
            ELSE IF temp = None THEN "E"
            ELSE IF Val(temp) > 18 /\ Val(humidity) < 65 THEN "T" ELSE "F"
        weed ==
            IF ~(\/ is_summer(current_month) /\ current_month = 8
                 \/ is_fall(current_month) /\ current_month = 9) THEN "F"
            ELSE IF temp = None THEN "E"
            ELSE IF Val(temp) > 15 THEN "T" ELSE "F"
    IN  IF humidity = None THEN [raised |-> FALSE, warnings |-> <<>>]
        ELSE IF tree = "E" THEN [raised |-> TRUE, warnings |-> <<>>]
        ELSE IF tree = "T"
        THEN [raised |-> FALSE,
              warnings |-> <<Warning("pollen", "high", "High tree pollen likely")>>]
        ELSE IF grass = "E" THEN [raised |-> TRUE, warnings |-> <<>>]
        ELSE IF grass = "T"
        THEN [raised |-> FALSE,
              warnings |-> <<Warning("pollen", "high", "High grass pollen likely")>>]
        ELSE IF weed = "E" THEN [raised |-> TRUE, warnings |-> <<>>]
        ELSE IF weed = "T"
        THEN [raised |-> FALSE,
              warnings |-> <<Warning("pollen", "moderate", "Elevated weed pollen likely")>>]
        ELSE [raised |-> FALSE, warnings |-> <<>>]

\* The pollen chain with the grass branch at humidity < 70.
pollen_warnings_grass_70(humidity, temp, current_month) ==
    LET tree ==
            IF ~is_spring(current_month) THEN "F"
            ELSE IF temp = None THEN "E"
            ELSE IF Val(temp) > 10 /\ Val(humidity) < 70 THEN "T" ELSE "F"
        grass ==
            IF ~(is_summer(current_month) /\ current_month = 6) THEN "F"
            ELSE IF temp = None THEN "E"
            ELSE IF Val(temp) > 18 /\ Val(humidity) < 70 THEN "T" ELSE "F"
        weed ==
            IF is_summer(current_month) /\ current_month = 8 THEN "T"
            ELSE IF ~(is_fall(current_month) /\ current_month = 9) THEN "F"
            ELSE IF temp = None THEN "E"
            ELSE IF Val(temp) > 15 THEN "T" ELSE "F"
    IN  IF humidity = None THEN [raised |-> FALSE, warnings |-> <<>>]
        ELSE IF tree = "E" THEN [raised |-> TRUE, warnings |-> <<>>]
        ELSE IF tree = "T"
        THEN [raised |-> FALSE,
              warnings |-> <<Warning("pollen", "high", "High tree pollen likely")>>]
        ELSE IF grass = "E" THEN [raised |-> TRUE, warnings |-> <<>>]
        ELSE IF grass = "T"
        THEN [raised |-> FALSE,
              warnings |-> <<Warning("pollen", "high", "High grass pollen likely")>>]
        ELSE IF weed = "E" THEN [raised |-> TRUE, warnings |-> <<>>]
        ELSE IF weed = "T"
        THEN [raised |-> FALSE,
              warnings |-> <<Warning("pollen", "moderate", "Elevated weed pollen likely")>>]
        ELSE [raised |-> FALSE, warnings |-> <<>>]

\* The pollen if/elif chain.  Each of its three conditions is "T", "F" or "E":
\* `and`/`or` evaluate left to right and stop at the deciding operand, and
\* comparing temp with a number raises TypeError when temp is None.
pollen_warnings(humidity, temp, current_month) ==
    LET tree ==
            IF ~is_spring(current_month) THEN "F"
            ELSE IF temp = None THEN "E"
            ELSE IF Val(temp) > 10 /\ Val(humidity) < 70 THEN "T" ELSE "F"
        grass ==
            IF ~(is_summer(current_month) /\ current_month = 6) THEN "F"
            ELSE IF temp = None THEN "E"
            ELSE IF Val(temp) > 18 /\ Val(humidity) < 65 THEN "T" ELSE "F"
        weed ==
            IF is_summer(current_month) /\ current_month = 8 THEN "T"
            ELSE IF ~(is_fall(current_month) /\ current_month = 9) THEN "F"
            ELSE IF temp = None THEN "E"
            ELSE IF Val(temp) > 15 THEN "T" ELSE "F"
    IN  IF humidity = None THEN [raised |-> FALSE, warnings |-> <<>>]
        ELSE IF tree = "E" THEN [raised |-> TRUE, warnings |-> <<>>]
        ELSE IF tree = "T"
        THEN [raised |-> FALSE,
              warnings |-> <<Warning("pollen", "high", "High tree pollen likely")>>]
        ELSE IF grass = "E" THEN [raised |-> TRUE, warnings |-> <<>>]
        ELSE IF grass = "T"
        THEN [raised |-> FALSE,
              warnings |-> <<Warning("pollen", "high", "High grass pollen likely")>>]
        ELSE IF weed = "E" THEN [raised |-> TRUE, warnings |-> <<>>]
        ELSE IF weed = "T"
        THEN [raised |-> FALSE,
              warnings |-> <<Warning("pollen", "moderate", "Elevated weed pollen likely")>>]
        ELSE [raised |-> FALSE, warnings |-> <<>>]


\* _calculate_warnings with the UV block moved above the temperature block.
warning_rules_uv_first(weather, current_month) ==
    LET temp == weather.temperature
        pollen == pollen_warnings(weather.humidity, temp, current_month)
    IN  IF pollen.raised
        THEN [status |-> "TypeError"]
        ELSE [status |-> "ok",
              warnings |-> uv_warnings(weather.uv_index, current_month)
                           \o temperature_warnings(temp, current_month)
                           \o precipitation_warnings(weather.precipitation, temp,
                                                     current_month)
                           \o pollen.warnings]

\* The body of _calculate_warnings once current_month is known: the rule
\* groups append to the list in this order.  weather is a dict whose four
\* readings are None or Some(number).
warning_rules(weather, current_month) ==
    LET temp == weather.temperature
        pollen == pollen_warnings(weather.humidity, temp, current_month)
    IN  IF pollen.raised
        THEN [status |-> "TypeError"]
        ELSE [status |-> "ok",
              warnings |-> temperature_warnings(temp, current_month)
                           \o uv_warnings(weather.uv_index, current_month)
                           \o precipitation_warnings(weather.precipitation, temp,
                                                     current_month)
                           \o pollen.warnings]

\* CopernicusDataService._calculate_warnings:
\* current_month = datetime.utcnow().month
calculate_warnings(weather) == warning_rules(weather, now_month)

\* 273.15 K in hundredths of a kelvin.
KelvinOffset == 27315

\* CopernicusService.calculate_weather_warnings.  weather_data carries
\* temperature_2m in hundredths of a kelvin, uv_index and precipitation, each
\* None when the key is missing (.get's default, 0, then applies).
svc_calculate_weather_warnings(weather_data) ==
    IF weather_data.temperature_2m = None
    THEN [status |-> "AttributeError"]      \* (0).values
    ELSE
    LET temp == Val(weather_data.temperature_2m) - KelvinOffset
        uv_index == IF weather_data.uv_index = None THEN 0
                    ELSE Val(weather_data.uv_index)
        precipitation == IF weather_data.precipitation = None THEN 0
                         ELSE Val(weather_data.precipitation)
        heat == IF temp > 100 * getenv("HEAT_WAVE_TEMP_THRESHOLD", HeatDefault)
                THEN <<Warning("heat_wave", "high", "Heat wave warning")>>
                ELSE <<>>
        cold == IF temp < 100 * getenv("COLD_WAVE_TEMP_THRESHOLD", ColdDefault)
                THEN <<Warning("cold_wave", "high", "Cold weather warning")>>
                ELSE <<>>
        uv == IF uv_index > getenv("UV_INDEX_HIGH_THRESHOLD", UvDefault)
              THEN <<Warning("uv_warning", "moderate", "High UV index warning")>>
              ELSE <<>>
        snow == IF temp < 0 /\ precipitation > 0
                THEN <<Warning("snowstorm", "high", "Snowstorm warning")>>
                ELSE <<>>
    IN  [status |-> "ok", warnings |-> heat \o cold \o uv \o snow]

(***************************************************************************)
(* Requests: the arguments the operations are called with                  *)
(***************************************************************************)
\* The upper bound of each pollutant's sixth segment.
Top(p) ==
    CASE p = "pm2p5" -> C(500, 4)
      [] p = "pm10"  -> C(604, 0)
      [] p = "co"    -> C(50, 4)
      [] p = "no2"   -> C(2049, 0)
      [] p = "o3"    -> C(404, 0)
      [] p = "so2"   -> C(1004, 0)

\* The grid reaches Below points under zero and Beyond points over Top(p).
Below == 120
Beyond == 40
Concentrations(p) == (-Below)..(Top(p) + Beyond)

Clean == [p \in Pollutants |-> 0]

\* One pollutant at any point of its grid, the others 0.
Sweep(p, c) == [Clean EXCEPT ![p] = c]

\* Every pollutant at one of four levels, independently.
Levels(p) == {-Below, 0, Top(p) \div 4, Top(p) + Beyond}
LevelReadings ==
    { [pm2p5 |-> a, pm10 |-> b, co |-> c, no2 |-> d, o3 |-> e, so2 |-> f] :
        a \in Levels("pm2p5"), b \in Levels("pm10"), c \in Levels("co"),
        d \in Levels("no2"), e \in Levels("o3"), f \in Levels("so2") }

\* Readings that lack one key.
PartialReadings ==
    { [q \in Pollutants \ {p} |-> Top(q) \div 4] : p \in Pollutants }

AqiRequest(r) == [kind |-> "air_quality", arg |-> r]

\* target_date = datetime(2025, 5, 12): the month every fetched reading's
\* timestamp carries.
TargetMonth == 5

\* Whole degrees Celsius from TempBelow under zero to TempMax.
TempBelow == 3
TempMax == 38
Temperatures == (-TempBelow)..TempMax
Humidities == {64, 65, 70}
Precipitations == {0, 10, 11, 25, 26}
UvIndexes == {4, 5, 6, 7}

Optional(S) == {None} \cup {Some(v) : v \in S}

WeatherReadings ==
    [temperature : Optional(Temperatures), humidity : Optional(Humidities),
     precipitation : Optional(Precipitations), uv_index : Optional(UvIndexes),
     timestamp : {TargetMonth}]

WeatherRequests == { [kind |-> "weather", arg |-> w] : w \in WeatherReadings }

\* Celsius readings, in hundredths of a degree, of CopernicusService's input.
SvcCelsius == {-100, -1, 0, 1, 3300, 3301, 3500, 3501}
SvcWeatherData ==
    [temperature_2m : Optional({KelvinOffset + c : c \in SvcCelsius}),
     uv_index : Optional({5, 6, 7}), precipitation : Optional({0, 10})]

SvcWeatherRequests == { [kind |-> "weather_data", arg |-> w] : w \in SvcWeatherData }

\* The threshold variables are unset or set to a value other than the default.
Environs ==
    [HEAT_WAVE_TEMP_THRESHOLD : Optional({33}),
     COLD_WAVE_TEMP_THRESHOLD : Optional({2}),
     UV_INDEX_HIGH_THRESHOLD  : Optional({5})]

\* A few readings for the runs in which the clock and the environment move
\* between two calls.
RepeatWeatherReadings ==
    [temperature : Optional({1, 34, 36}), humidity : Optional({64}),
     precipitation : Optional({11}), uv_index : Optional({6}),
     timestamp : {TargetMonth}]
RepeatAirQualityReadings == {Clean} \cup PartialReadings

(***************************************************************************)
(* Operations                                                              *)
(***************************************************************************)
\* A caller obtains one of the few readings of the repeated-call runs.
ReceiveRepeatReading ==
    /\ pc = "idle"
    /\ \/ \E w \in RepeatWeatherReadings : request' = [kind |-> "weather", arg |-> w]
       \/ \E r \in RepeatAirQualityReadings : request' = AqiRequest(r)
    /\ pc' = "pending"
    /\ UNCHANGED <<now_month, environ, ret, again>>
    /\ UNCHANGED handler_vars

\* A caller obtains a weather reading to pass to _calculate_warnings.
ReceiveWeather ==
    /\ pc = "idle"
    /\ request' \in WeatherRequests
    /\ pc' = "pending"
    /\ UNCHANGED <<now_month, environ, ret, again>>
    /\ UNCHANGED handler_vars

\* A caller obtains weather data to pass to calculate_weather_warnings.
ReceiveWeatherData ==
    /\ pc = "idle"
    /\ request' \in SvcWeatherRequests
    /\ pc' = "pending"
    /\ UNCHANGED <<now_month, environ, ret, again>>
    /\ UNCHANGED handler_vars

\* A caller obtains a pollutant reading to pass to an AQI calculator.
ReceiveAirQuality ==
    /\ pc = "idle"
    /\ \/ \E p \in Pollutants : \E c \in Concentrations(p) :
              request' = AqiRequest(Sweep(p, c))
       \/ \E r \in LevelReadings \cup PartialReadings :
              request' = AqiRequest(r)
    /\ pc' = "pending"
    /\ UNCHANGED <<now_month, environ, ret, again>>
    /\ UNCHANGED handler_vars

CalculateWarnings ==
    /\ pc = "pending"
    /\ request.kind = "weather"
    /\ ret' = calculate_warnings(request.arg)
    /\ pc' = "calculate_warnings"
    /\ UNCHANGED <<now_month, environ, request, again>>
    /\ UNCHANGED handler_vars

SvcCalculateWeatherWarnings ==
    /\ pc = "pending"
    /\ request.kind = "weather_data"
    /\ ret' = svc_calculate_weather_warnings(request.arg)
    /\ pc' = "svc_calculate_weather_warnings"
    /\ UNCHANGED <<now_month, environ, request, again>>
    /\ UNCHANGED handler_vars

CalculateAqi ==
    /\ pc = "pending"
    /\ request.kind = "air_quality"
    /\ ret' = calculate_aqi(request.arg)
    /\ pc' = "calculate_aqi"
    /\ UNCHANGED <<now_month, environ, request, again>>
    /\ UNCHANGED handler_vars

SvcCalculateAqi ==
    /\ pc = "pending"
    /\ request.kind = "air_quality"
    /\ ret' = svc_calculate_aqi(request.arg)
    /\ pc' = "svc_calculate_aqi"
    /\ UNCHANGED <<now_month, environ, request, again>>
    /\ UNCHANGED handler_vars

\* Time passes: the wall clock enters the next month.
Tick ==
    /\ now_month' = (now_month % 12) + 1
    /\ UNCHANGED <<environ, request, pc, ret, again>>
    /\ UNCHANGED handler_vars

\* The operator sets or unsets a threshold variable.
SetEnv ==
    /\ \E e \in Environs :
          /\ e # environ
          /\ \E name \in DOMAIN e :
                \A other \in DOMAIN e \ {name} : e[other] = environ[other]
          /\ environ' = e
    /\ UNCHANGED <<now_month, request, pc, ret, again>>
    /\ UNCHANGED handler_vars

\* The operation that ran is called a second time with the identical argument.
Recall ==
    /\ pc \notin {"idle", "pending"}
    /\ again = NotCalled
    /\ again' = CASE pc = "calculate_warnings" -> calculate_warnings(request.arg)
                  [] pc = "svc_calculate_weather_warnings" ->
                         svc_calculate_weather_warnings(request.arg)
                  [] pc = "calculate_aqi" -> calculate_aqi(request.arg)
                  [] pc = "svc_calculate_aqi" -> svc_calculate_aqi(request.arg)
    /\ UNCHANGED <<now_month, environ, request, pc, ret>>
    /\ UNCHANGED handler_vars

(***************************************************************************)
(* Specifications                                                          *)
(***************************************************************************)
\* The warning engines, each called once, in any month and environment.
Init ==
    /\ now_month \in Months
    /\ environ \in Environs
    /\ request = NoRequest
    /\ pc = "idle"
    /\ ret = NotCalled
    /\ again = NotCalled
    /\ call = NoCall
    /\ response = NoResponse
    /\ now = 0
    /\ db = <<>>

Next ==
    \/ ReceiveWeather
    \/ ReceiveWeatherData
    \/ CalculateWarnings
    \/ SvcCalculateWeatherWarnings

Spec == Init /\ [][Next]_vars

\* The AQI calculators, each called once on every reading of the grid.
InitAqi ==
    /\ now_month = TargetMonth
    /\ environ = [n \in {"HEAT_WAVE_TEMP_THRESHOLD", "COLD_WAVE_TEMP_THRESHOLD",
                         "UV_INDEX_HIGH_THRESHOLD"} |-> None]
    /\ request = NoRequest
    /\ pc = "idle"
    /\ ret = NotCalled
    /\ again = NotCalled
    /\ call = NoCall
    /\ response = NoResponse
    /\ now = 0
    /\ db = <<>>

NextAqi == ReceiveAirQuality \/ CalculateAqi \/ SvcCalculateAqi

SpecAqi == InitAqi /\ [][NextAqi]_vars

\* A caller calls an operation twice with the identical argument while time
\* passes and the operator changes the environment.
NextRepeat ==
    \/ ReceiveRepeatReading
    \/ CalculateWarnings
    \/ CalculateAqi
    \/ SvcCalculateAqi
    \/ Tick
    \/ SetEnv
    \/ Recall

SpecRepeat == Init /\ [][NextRepeat]_vars

(***************************************************************************)
(* Properties                                                              *)
(***************************************************************************)
AqiCalled == pc \in {"calculate_aqi", "svc_calculate_aqi"}
WarningsCalled == pc \in {"calculate_warnings", "svc_calculate_weather_warnings"}

\* The documented breakpoint table: the six concentration ranges of each
\* pollutant and the six index bands they map to.
ConcentrationRanges(p) ==
    CASE p = "pm2p5" -> << <<0, C(12, 0)>>, <<C(12, 1), C(35, 4)>>, <<C(35, 5), C(55, 4)>>,
                           <<C(55, 5), C(150, 4)>>, <<C(150, 5), C(250, 4)>>,
                           <<C(250, 5), C(500, 4)>> >>
      [] p = "pm10"  -> << <<0, C(54, 0)>>, <<C(55, 0), C(154, 0)>>, <<C(155, 0), C(254, 0)>>,
                           <<C(255, 0), C(354, 0)>>, <<C(355, 0), C(424, 0)>>,
                           <<C(425, 0), C(604, 0)>> >>
      [] p = "co"    -> << <<0, C(4, 4)>>, <<C(4, 5), C(9, 4)>>, <<C(9, 5), C(12, 4)>>,
                           <<C(12, 5), C(15, 4)>>, <<C(15, 5), C(30, 4)>>,
                           <<C(30, 5), C(50, 4)>> >>
      [] p = "no2"   -> << <<0, C(53, 0)>>, <<C(54, 0), C(100, 0)>>, <<C(101, 0), C(360, 0)>>,
                           <<C(361, 0), C(649, 0)>>, <<C(650, 0), C(1249, 0)>>,
                           <<C(1250, 0), C(2049, 0)>> >>
      [] p = "o3"    -> << <<0, C(54, 0)>>, <<C(55, 0), C(70, 0)>>, <<C(71, 0), C(85, 0)>>,
                           <<C(86, 0), C(105, 0)>>, <<C(106, 0), C(200, 0)>>,
                           <<C(201, 0), C(404, 0)>> >>
      [] p = "so2"   -> << <<0, C(35, 0)>>, <<C(36, 0), C(75, 0)>>, <<C(76, 0), C(185, 0)>>,
                           <<C(186, 0), C(304, 0)>>, <<C(305, 0), C(604, 0)>>,
                           <<C(605, 0), C(1004, 0)>> >>
IndexBands == << <<0, 50>>, <<51, 100>>, <<101, 150>>, <<151, 200>>, <<201, 300>>, <<301, 500>> >>

\* C1: in every AQI result, of CopernicusDataService._calculate_aqi and of
\* CopernicusService.calculate_aqi, the overall value is the maximum of the
\* six sub-indices: no sub-index exceeds it and one of them equals it.
C1_OverallIsMaxOfComponents ==
    (AqiCalled /\ ret.status = "ok") =>
        /\ DOMAIN ret.components = Pollutants
        /\ \A p \in Pollutants : ret.components[p] <= ret.overall
        /\ \E p \in Pollutants : ret.components[p] = ret.overall

\* A result whose maximum is the NO2 sub-index and not the PM2.5 one.
C1_Witness ==
    /\ pc = "calculate_aqi"
    /\ ret.status = "ok"
    /\ ret.overall = ret.components["no2"]
    /\ ret.components["pm2p5"] > 0
    /\ ret.components["pm2p5"] < ret.overall

\* C2: a concentration within a documented segment [c_lo, c_hi] yields a
\* sub-index within that segment's band [i_lo, i_hi]; c_lo yields exactly i_lo
\* and c_hi exactly i_hi.
C2_SegmentsMapToBands ==
    (AqiCalled /\ ret.status = "ok") =>
        \A p \in DOMAIN request.arg : \A k \in 1..6 :
            LET c == request.arg[p]
                c_lo == ConcentrationRanges(p)[k][1]
                c_hi == ConcentrationRanges(p)[k][2]
                i_lo == IndexBands[k][1]
                i_hi == IndexBands[k][2]
                index == ret.components[p]
            IN  (c_lo <= c /\ c <= c_hi) =>
                    /\ i_lo <= index /\ index <= i_hi
                    /\ c = c_lo => index = i_lo
                    /\ c = c_hi => index = i_hi

\* PM2.5 at 12.1, the lower end of the second segment, gives 51.
C2_Witness ==
    /\ pc = "calculate_aqi"
    /\ ret.status = "ok"
    /\ request.arg["pm2p5"] = C(12, 1)
    /\ ret.components["pm2p5"] = 51

\* C3: an AQI computation on a reading with a negative concentration fails
\* with InvalidReading and returns no result.
C3_NegativeIsInvalidReading ==
    (AqiCalled /\ \E p \in DOMAIN request.arg : request.arg[p] < 0) =>
        ret.status = "InvalidReading"

\* C4: the warning computation never fails, whichever of the four readings
\* are absent, in any month.
C4_WarningsNeverFail ==
    pc = "calculate_warnings" => ret.status = "ok"

\* C5: a second call with the identical argument returns what the first call
\* returned, whatever happened to the clock and the environment in between.
C5_SameInputSameOutput ==
    again # NotCalled => again = ret

\* C6: the warnings returned for a reading are those the rules give for the
\* season of the reading's own timestamp, whatever the wall clock's month.
C6_SeasonOfObservation ==
    pc = "calculate_warnings" =>
        ret = warning_rules(request.arg, request.arg.timestamp)

\* The place of a warning's rule group in the evaluation order.
Rank(type) ==
    CASE type = "heat_wave" -> 1
      [] type = "cold_wave" -> 2
      [] type = "uv_warning" -> 3
      [] type \in {"snowstorm", "heavy_rain"} -> 4
      [] type = "pollen" -> 5

AllowedPairs ==
    { <<"heat_wave", "moderate">>, <<"heat_wave", "high">>,
      <<"cold_wave", "moderate">>, <<"cold_wave", "high">>,
      <<"uv_warning", "high">>, <<"uv_warning", "moderate">>,
      <<"snowstorm", "low">>, <<"snowstorm", "moderate">>, <<"snowstorm", "high">>,
      <<"heavy_rain", "moderate">>,
      <<"pollen", "high">>, <<"pollen", "moderate">> }

\* C8: every warning either engine returns has a (kind, severity) pair of the
\* enumerated set, under every threshold configuration.
C8_OnlyEnumeratedPairs ==
    (WarningsCalled /\ ret.status = "ok") =>
        \A i \in 1..Len(ret.warnings) :
            <<ret.warnings[i].type, ret.warnings[i].severity>> \in AllowedPairs

\* Heavy rain, the one kind with a single severity, is returned.
C8_Witness ==
    /\ pc = "calculate_warnings"
    /\ ret.status = "ok"
    /\ \E i \in 1..Len(ret.warnings) :
          /\ ret.warnings[i].type = "heavy_rain"
          /\ ret.warnings[i].severity = "moderate"

\* The severities, in order, of the warnings of one kind in the result.
Severities(kind) ==
    LET OfKind(w) == w.type = kind
        ws == SelectSeq(ret.warnings, OfKind)
    IN  [i \in 1..Len(ws) |-> ws[i].severity]

\* C9: with temperature present the call returns, and its heat_wave warnings
\* are: exactly one, moderate, in a spring month with temperature >
\* heat_threshold - 2; otherwise exactly one, high, with temperature >
\* heat_threshold; otherwise none.
C9_HeatRule ==
    (pc = "calculate_warnings" /\ request.arg.temperature # None) =>
        LET temperature == Val(request.arg.temperature)
            heat_threshold == IF environ["HEAT_WAVE_TEMP_THRESHOLD"] = None THEN 35
                              ELSE Val(environ["HEAT_WAVE_TEMP_THRESHOLD"])
        IN  /\ ret.status = "ok"
            /\ Severities("heat_wave") =
                  IF now_month \in {3, 4, 5} /\ temperature > heat_threshold - 2
                  THEN <<"moderate">>
                  ELSE IF temperature > heat_threshold
                  THEN <<"high">>
                  ELSE <<>>

\* 36 degrees in April under the default threshold: heat_wave/moderate.
C9_Witness ==
    /\ pc = "calculate_warnings"
    /\ now_month = 4
    /\ environ["HEAT_WAVE_TEMP_THRESHOLD"] = None
    /\ request.arg.temperature = Some(36)
    /\ ret.status = "ok"
    /\ Severities("heat_wave") = <<"moderate">>

\* C10: with temperature present the cold_wave warnings are: exactly one,
\* moderate, in a fall month with temperature < cold_threshold + 2; otherwise
\* exactly one, high, with temperature < cold_threshold; otherwise none.  With
\* temperature absent no heat_wave and no cold_wave is returned.
C10_ColdRule ==
    pc = "calculate_warnings" =>
        IF request.arg.temperature # None
        THEN LET temperature == Val(request.arg.temperature)
                 cold_threshold == IF environ["COLD_WAVE_TEMP_THRESHOLD"] = None THEN 0
                                   ELSE Val(environ["COLD_WAVE_TEMP_THRESHOLD"])
             IN  /\ ret.status = "ok"
                 /\ Severities("cold_wave") =
                       IF now_month \in {9, 10, 11} /\ temperature < cold_threshold + 2
                       THEN <<"moderate">>
                       ELSE IF temperature < cold_threshold
                       THEN <<"high">>
                       ELSE <<>>
        ELSE ret.status = "ok" =>
                 /\ Severities("heat_wave") = <<>>
                 /\ Severities("cold_wave") = <<>>

\* 1 degree in October under the default threshold: cold_wave/moderate.
C10_Witness ==
    /\ pc = "calculate_warnings"
    /\ now_month = 10
    /\ environ["COLD_WAVE_TEMP_THRESHOLD"] = None
    /\ request.arg.temperature = Some(1)
    /\ ret.status = "ok"
    /\ Severities("cold_wave") = <<"moderate">>

\* The kinds, in order, of the warnings in the result.
Kinds == [i \in 1..Len(ret.warnings) |-> ret.warnings[i].type]

SnowCondition(weather) ==
    /\ weather.precipitation # None
    /\ Val(weather.precipitation) > 0
    /\ weather.temperature # None
    /\ Val(weather.temperature) < 2

\* C12: under the snow condition the call returns and the list holds exactly
\* one snowstorm warning: in a winter month (12, 1, 2) moderate if
\* precipitation > 10 and low otherwise, in every other month high.  Without
\* the snow condition no returned list holds a snowstorm warning.
C12_SnowRule ==
    pc = "calculate_warnings" =>
        IF SnowCondition(request.arg)
        THEN /\ ret.status = "ok"
             /\ Severities("snowstorm") =
                   IF now_month \in {12, 1, 2}
                   THEN (IF Val(request.arg.precipitation) > 10
                         THEN <<"moderate">> ELSE <<"low">>)
                   ELSE <<"high">>
        ELSE ret.status = "ok" => Severities("snowstorm") = <<>>

\* Temperature -1 and precipitation 11 in December: snowstorm/moderate.
C12_Witness ==
    /\ pc = "calculate_warnings"
    /\ now_month = 12
    /\ request.arg.temperature = Some(-1)
    /\ request.arg.precipitation = Some(11)
    /\ ret.status = "ok"
    /\ Severities("snowstorm") = <<"moderate">>

C14_WeedPollenQuirk ==
    (pc = "calculate_warnings" /\ request.arg.humidity # None) =>
        /\ now_month = 8 =>
               (ret.status = "ok" /\ Severities("pollen") = <<"moderate">>)
        /\ now_month = 9 =>
               /\ request.arg.temperature # None =>
                      /\ ret.status = "ok"
                      /\ Severities("pollen") =
                            IF Val(request.arg.temperature) > 15
                            THEN <<"moderate">> ELSE <<>>
               /\ (ret.status = "ok" /\ Severities("pollen") # <<>>) =>
                      request.arg.temperature # None
        /\ now_month \in {10, 11} =>
               (ret.status = "ok" /\ Severities("pollen") = <<>>)

\* August at 1 degree: pollen/moderate all the same.
C14_Witness ==
    /\ pc = "calculate_warnings"
    /\ now_month = 8
    /\ request.arg.humidity # None
    /\ request.arg.temperature = Some(1)
    /\ ret.status = "ok"
    /\ Severities("pollen") = <<"moderate">>

\* C15: a returned list holds at most one pollen warning, and one only when
\* humidity is present and the month is one of 3, 4, 5, 6, 8, 9; in spring it
\* holds pollen/high exactly when temperature > 10 and humidity < 70, in June
\* exactly when temperature > 18 and humidity < 65; with humidity absent the
\* call returns and the list holds no pollen warning, in any month.
C15_PollenRule ==
    pc = "calculate_warnings" =>
        LET temperature == request.arg.temperature
            humidity == request.arg.humidity
        IN  /\ humidity = None =>
                   (ret.status = "ok" /\ Severities("pollen") = <<>>)
            /\ ret.status = "ok" =>
                   /\ Len(Severities("pollen")) <= 1
                   /\ Severities("pollen") # <<>> =>
                          (humidity # None /\ now_month \in {3, 4, 5, 6, 8, 9})
                   /\ now_month \in {3, 4, 5} =>
                          Severities("pollen") =
                              IF /\ humidity # None /\ temperature # None
                                 /\ Val(temperature) > 10 /\ Val(humidity) < 70
                              THEN <<"high">> ELSE <<>>
                   /\ now_month = 6 =>
                          Severities("pollen") =
                              IF /\ humidity # None /\ temperature # None
                                 /\ Val(temperature) > 18 /\ Val(humidity) < 65
                              THEN <<"high">> ELSE <<>>

\* June at 19 degrees and humidity 64: pollen/high.
C15_Witness ==
    /\ pc = "calculate_warnings"
    /\ now_month = 6
    /\ request.arg.temperature = Some(19)
    /\ request.arg.humidity = Some(64)
    /\ ret.status = "ok"
    /\ Severities("pollen") = <<"high">>

\* C16: in every call of _calculate_warnings exactly one of is_winter,
\* is_spring, is_summer, is_fall is true of the month, and it is the one the
\* mapping {12,1,2 -> winter; 3,4,5 -> spring; 6,7,8 -> summer; 9,10,11 ->
\* fall} names.
C16_SeasonIsTotal ==
    pc = "calculate_warnings" =>
        LET flags == <<is_winter(now_month), is_spring(now_month),
                       is_summer(now_month), is_fall(now_month)>>
        IN  /\ Cardinality({i \in 1..4 : flags[i]}) = 1
            /\ flags[1] <=> now_month \in {12, 1, 2}
            /\ flags[2] <=> now_month \in {3, 4, 5}
            /\ flags[3] <=> now_month \in {6, 7, 8}
            /\ flags[4] <=> now_month \in {9, 10, 11}

\* A call in November, the last month of fall, in which the fall branch of the
\* cold rule answered.
C16_Witness ==
    /\ pc = "calculate_warnings"
    /\ now_month = 11
    /\ is_fall(now_month)
    /\ ret.status = "ok"
    /\ Severities("cold_wave") = <<"moderate">>

\* C17: the thresholds are fixed when the engine is constructed, so a change
\* of the environment variables afterwards leaves the warnings a reading
\* gets in a given month as they were: no step that keeps the reading and the
\* month changes what _calculate_warnings returns for the reading.
C17_ThresholdsFixedAtConstruction ==
    [][ ( /\ request.kind = "weather"
          /\ request' = request
          /\ now_month' = now_month )
        => calculate_warnings(request.arg)' = calculate_warnings(request.arg) ]_vars

\* The segment of the documented table a concentration falls under: the first
\* whose upper bound it does not exceed, the sixth beyond them all.
Segment(p, c) ==
    LET ranges == ConcentrationRanges(p)
    IN  IF c <= ranges[1][2] THEN 1
        ELSE IF c <= ranges[2][2] THEN 2
        ELSE IF c <= ranges[3][2] THEN 3
        ELSE IF c <= ranges[4][2] THEN 4
        ELSE IF c <= ranges[5][2] THEN 5
        ELSE 6

\* The linearly scaled value (c - c_lo) * (i_hi - i_lo) / (c_hi - c_lo) + i_lo
\* of a concentration, as the fraction ScaledNum / ScaledDen.
ScaledDen(p, c) ==
    LET range == ConcentrationRanges(p)[Segment(p, c)]
    IN  range[2] - range[1]
ScaledNum(p, c) ==
    LET k == Segment(p, c)
        range == ConcentrationRanges(p)[k]
    IN  (c - range[1]) * (IndexBands[k][2] - IndexBands[k][1])
        + IndexBands[k][1] * (range[2] - range[1])

\* C18: every sub-index is the linearly scaled value truncated toward zero:
\* the greatest integer not above a scaled value >= 0, whatever its fractional
\* part, and the least integer not below a negative one.  Where the double
\* arithmetic of _linear_scale lands just short of a whole scaled value
\* (FloatShort), truncation gives the integer one nearer to zero.
C18_TruncatedTowardZero ==
    (AqiCalled /\ ret.status = "ok") =>
        \A p \in DOMAIN request.arg :
            LET c == request.arg[p]
                range == ConcentrationRanges(p)[Segment(p, c)]
                num == ScaledNum(p, c)
                den == ScaledDen(p, c)
                index == ret.components[p]
                short == <<c, range[1], range[2]>> \in FloatShort
            IN  IF num >= 0
                THEN IF short THEN num = (index + 1) * den
                     ELSE index * den <= num /\ num < (index + 1) * den
                ELSE IF short THEN num = (index - 1) * den
                     ELSE (index - 1) * den < num /\ num <= index * den

\* PM2.5 at 11.9 scales to 49.58 and gives 49.
C18_Witness ==
    /\ pc = "calculate_aqi"
    /\ ret.status = "ok"
    /\ request.arg["pm2p5"] = C(11, 9)
    /\ 2 * (ScaledNum("pm2p5", C(11, 9)) - 49 * ScaledDen("pm2p5", C(11, 9)))
           >= ScaledDen("pm2p5", C(11, 9))
    /\ ret.components["pm2p5"] = 49

\* C19 as stated: a concentration above the sixth segment's upper bound
\* gives a sub-index and an overall AQI above 500.
C19_AboveTopExceeds500 ==
    (AqiCalled /\ ret.status = "ok") =>
        \A p \in DOMAIN request.arg :
            request.arg[p] > Top(p) =>
                (ret.components[p] > 500 /\ ret.overall > 500)

\* C19: a concentration above the fifth breakpoint is never rejected and its
\* sub-index is the sixth segment's formula, truncated; above the sixth
\* segment's upper bound the sub-index and the overall AQI are therefore at
\* least 500, and above 500 as soon as the extrapolated value reaches 501.
C19_SixthSegmentExtrapolated ==
    AqiCalled =>
        \A p \in DOMAIN request.arg :
            LET c == request.arg[p]
                c_lo == ConcentrationRanges(p)[6][1]
                c_hi == ConcentrationRanges(p)[6][2]
                num == (c - c_lo) * (IndexBands[6][2] - IndexBands[6][1])
                       + IndexBands[6][1] * (c_hi - c_lo)
                den == c_hi - c_lo
            IN  c > ConcentrationRanges(p)[5][2] =>
                    /\ ret.status = "ok" \/ DOMAIN request.arg # Pollutants
                    /\ ret.status = "ok" =>
                           LET index == ret.components[p]
                           IN  /\ index * den <= num /\ num < (index + 1) * den
                               /\ c > c_hi => (index >= 500 /\ ret.overall >= 500)
                               /\ num >= 501 * den =>
                                      (index > 500 /\ ret.overall > 500)

\* PM2.5 above 500.4 with a sub-index, and so an overall AQI, above 500.
C19_Witness ==
    /\ pc = "calculate_aqi"
    /\ ret.status = "ok"
    /\ request.arg["pm2p5"] > C(500, 4)
    /\ ret.components["pm2p5"] > 500
    /\ ret.overall = ret.components["pm2p5"]

\* C20: for a reading with all six concentrations present and >= 0 the AQI
\* computation returns, and every sub-index and the overall AQI are integers
\* >= 0.
C20_NonNegativeReadingNonNegativeIndex ==
    ( /\ AqiCalled
      /\ DOMAIN request.arg = Pollutants
      /\ \A p \in Pollutants : request.arg[p] >= 0 ) =>
        /\ ret.status = "ok"
        /\ \A p \in Pollutants : ret.components[p] \in Nat
        /\ ret.overall \in Nat

\* PM2.5 at 12.05, between the first two segments, the other five at 0: the
\* second segment's formula, started below its lower bound, still gives 50.
C20_Witness ==
    /\ pc = "calculate_aqi"
    /\ request.arg = Sweep("pm2p5", C(12, 0) + 1)
    /\ ret.status = "ok"
    /\ ret.components["pm2p5"] = 50
    /\ ret.overall = 50

\* C21: every AQI computation returns, its components mapping has exactly
\* the six pollutant keys, and a pollutant the reading does not carry gets
\* sub-index 0.
C21_SixKeysEvenIfMissing ==
    AqiCalled =>
        /\ ret.status = "ok"
        /\ DOMAIN ret.components = Pollutants
        /\ \A p \in Pollutants \ DOMAIN request.arg : ret.components[p] = 0

(***************************************************************************)
(* The handlers: api/endpoints/environment.py over CopernicusService, and  *)
(* CopernicusDataService.get_environmental_status                          *)
(***************************************************************************)
\* The three HTTP operations and the data service's own status method.
HttpOps == {"air-quality", "weather-warnings", "environmental-status"}
StatusOps == {"environmental-status", "CopernicusDataService.get_environmental_status"}
Ops == HttpOps \cup StatusOps

NeedsAirQuality(op) == op # "weather-warnings"
NeedsWeather(op) == op # "air-quality"

\* What the fetches can deliver: CopernicusService returns response.json(),
\* whatever keys it has; CopernicusDataService.get_air_quality_data returns all
\* six keys and get_weather_data a humidity only next to a temperature.
FetchedAirQuality(op) ==
    IF op \in HttpOps THEN RepeatAirQualityReadings
    ELSE {Clean, Sweep("pm2p5", C(35, 5))}
FetchedWeather(op) ==
    IF op \in HttpOps THEN SvcWeatherData
    ELSE {w \in RepeatWeatherReadings : w.humidity # None => w.temperature # None}

\* Both fetches issued at once, as asyncio.gather would.
issue_fetches_gather(op) ==
    [air_quality |-> IF NeedsAirQuality(op) THEN "in_flight" ELSE "not_started",
     weather     |-> IF NeedsWeather(op) THEN "in_flight" ELSE "not_started"]

\* The first await of each handler: get_air_quality_data where the handler
\* has one, get_weather_data otherwise.
issue_fetches(op) ==
    [air_quality |-> IF NeedsAirQuality(op) THEN "in_flight" ELSE "not_started",
     weather     |-> IF NeedsAirQuality(op) THEN "not_started" ELSE "in_flight"]

\* except Exception: raise HTTPException(status_code=500) in the endpoints;
\* log and re-raise in the data service.
failure(op) ==
    IF op \in HttpOps THEN [status |-> "http_error", status_code |-> 500]
    ELSE [status |-> "raised"]

\* The endpoints answering success with an empty warning list when
\* calculate_weather_warnings raises.
respond_swallow(op, air_quality_data, weather_data) ==
    IF op = "air-quality"
    THEN [status |-> "success",
          data |-> [air_quality |-> air_quality_data,
                    aqi |-> svc_calculate_aqi(air_quality_data)]]
    ELSE IF op = "weather-warnings"
    THEN [status |-> "success",
          data |-> [weather |-> weather_data, warnings |-> <<>>]]
    ELSE IF op = "environmental-status"
    THEN [status |-> "success",
          data |-> [air_quality |-> air_quality_data,
                    aqi |-> svc_calculate_aqi(air_quality_data),
                    weather |-> weather_data, warnings |-> <<>>,
                    timestamp |-> None]]
    ELSE [status |-> "raised"]

\* The rest of a handler once its readings are fetched: the calculations and
\* the answer.  The weather data of CopernicusService carry no "timestamp"
\* key here, so weather_data.get("timestamp") is None.
respond(op, air_quality_data, weather_data) ==
    IF op = "air-quality"
    THEN LET aqi_result == svc_calculate_aqi(air_quality_data)
         IN  [status |-> "success",
              data |-> [air_quality |-> air_quality_data, aqi |-> aqi_result]]
    ELSE IF op = "weather-warnings"
    THEN LET warnings == svc_calculate_weather_warnings(weather_data)
         IN  IF warnings.status # "ok" THEN failure(op)
             ELSE [status |-> "success",
                   data |-> [weather |-> weather_data,
                             warnings |-> warnings.warnings]]
    ELSE IF op = "environmental-status"
    THEN LET aqi_result == svc_calculate_aqi(air_quality_data)
             warnings == svc_calculate_weather_warnings(weather_data)
         IN  IF warnings.status # "ok" THEN failure(op)
             ELSE [status |-> "success",
                   data |-> [air_quality |-> air_quality_data,
                             aqi |-> aqi_result,
                             weather |-> weather_data,
                             warnings |-> warnings.warnings,
                             timestamp |-> None]]
    ELSE LET aqi == calculate_aqi(air_quality_data)
             warnings == calculate_warnings(weather_data)
         IN  IF aqi.status # "ok" \/ warnings.status # "ok" THEN failure(op)
             ELSE [status |-> "returned",
                   value |-> [air_quality |-> air_quality_data,
                              weather |-> weather_data,
                              aqi |-> aqi,
                              warnings |-> warnings.warnings,
                              timestamp |-> now_month]]

\* The reading a completed fetch delivered, None before.
Data(fetched) == IF fetched = None THEN None ELSE Val(fetched)

\* A request arrives and the handler issues its first fetch.
Accept ==
    /\ call = NoCall
    /\ \E op \in Ops :
          call' = [op |-> op, at |-> "fetch", fetch |-> issue_fetches(op),
                   air_quality_data |-> None, weather_data |-> None,
                   calculated |-> FALSE]
    /\ response' = NoResponse
    /\ UNCHANGED <<now_month, environ, now, db>>
    /\ UNCHANGED calculator_vars

\* await get_air_quality_data(...) completes: with a reading, and the handler
\* goes on to its next await or to the calculations; or with an exception,
\* which ends the handler.
CompleteAirQuality ==
    /\ call.op # "none"
    /\ call.at = "fetch"
    /\ call.fetch.air_quality = "in_flight"
    /\ \/ \E d \in FetchedAirQuality(call.op) :
              LET weather == IF NeedsWeather(call.op)
                                /\ call.fetch.weather = "not_started"
                             THEN "in_flight" ELSE call.fetch.weather
              IN  /\ call' = [call EXCEPT
                                 !.air_quality_data = Some(d),
                                 !.fetch = [air_quality |-> "done", weather |-> weather],
                                 !.at = IF NeedsWeather(call.op) /\ weather # "done"
                                        THEN "fetch" ELSE "calculate"]
                  /\ UNCHANGED response
       \/ /\ call' = [call EXCEPT !.fetch.air_quality = "failed", !.at = "responded"]
          /\ response' = failure(call.op)
    /\ UNCHANGED <<now_month, environ, now, db>>
    /\ UNCHANGED calculator_vars

\* await get_weather_data(...) completes, with a reading or an exception.
CompleteWeather ==
    /\ call.op # "none"
    /\ call.at = "fetch"
    /\ call.fetch.weather = "in_flight"
    /\ \/ \E w \in FetchedWeather(call.op) :
              /\ call' = [call EXCEPT
                             !.weather_data = Some(w),
                             !.fetch.weather = "done",
                             !.at = IF NeedsAirQuality(call.op)
                                       /\ call.fetch.air_quality # "done"
                                    THEN "fetch" ELSE "calculate"]
              /\ UNCHANGED response
       \/ /\ call' = [call EXCEPT !.fetch.weather = "failed", !.at = "responded"]
          /\ response' = failure(call.op)
    /\ UNCHANGED <<now_month, environ, now, db>>
    /\ UNCHANGED calculator_vars

\* The calculations and the return statement (or the except clause).
Calculate ==
    /\ call.op # "none"
    /\ call.at = "calculate"
    /\ response' = respond(call.op, Data(call.air_quality_data), Data(call.weather_data))
    /\ call' = [call EXCEPT !.at = "responded", !.calculated = TRUE]
    /\ UNCHANGED <<now_month, environ, now, db>>
    /\ UNCHANGED calculator_vars

NextHandlers == Accept \/ CompleteAirQuality \/ CompleteWeather \/ Calculate

\* One request to one of the handlers, in any month and environment.
SpecHandlers == Init /\ [][NextHandlers]_vars

\* C22: an HTTP operation that has answered has answered either HTTP 500 or
\* a success envelope; it answers 500 whenever a fetch failed or a calculation
\* raised, and a success envelope carries every part of its data, each
\* computed from the fetched readings.  Nothing is answered before that.
C22_EnvelopeOrHttpError ==
    call.op \in HttpOps =>
        LET op == call.op
            fetched == /\ NeedsAirQuality(op) => call.air_quality_data # None
                       /\ NeedsWeather(op) => call.weather_data # None
            raised == /\ fetched
                      /\ NeedsWeather(op)
                      /\ svc_calculate_weather_warnings(Val(call.weather_data)).status # "ok"
        IN  IF call.at # "responded" THEN response = NoResponse
            ELSE /\ response.status \in {"success", "http_error"}
                 /\ response.status = "http_error" => response.status_code = 500
                 /\ (~fetched \/ raised) => response.status = "http_error"
                 /\ response.status = "success" =>
                        /\ fetched /\ ~raised
                        /\ DOMAIN response.data =
                              (IF NeedsAirQuality(op) THEN {"air_quality", "aqi"} ELSE {})
                              \cup (IF NeedsWeather(op) THEN {"weather", "warnings"} ELSE {})
                              \cup (IF op = "environmental-status" THEN {"timestamp"} ELSE {})
                        /\ NeedsAirQuality(op) =>
                               /\ response.data.air_quality = Val(call.air_quality_data)
                               /\ response.data.aqi.components =
                                      svc_calculate_aqi(Val(call.air_quality_data)).components
                        /\ NeedsWeather(op) =>
                               /\ response.data.weather = Val(call.weather_data)
                               /\ response.data.warnings =
                                      svc_calculate_weather_warnings(
                                          Val(call.weather_data)).warnings

\* Both readings were fetched, calculate_weather_warnings raised on weather
\* data without temperature_2m, and the operation answered 500.
C22_Witness ==
    /\ call.op = "environmental-status"
    /\ call.at = "responded"
    /\ call.calculated
    /\ call.air_quality_data # None
    /\ call.weather_data # None
    /\ Val(call.weather_data).temperature_2m = None
    /\ response = [status |-> "http_error", status_code |-> 500]

\* C23 as stated: the two fetches are concurrent, so while the pollutant
\* fetch is in flight the weather fetch has been issued too.
C23_FetchedConcurrently ==
    (call.op \in StatusOps /\ call.fetch.air_quality = "in_flight") =>
        call.fetch.weather # "not_started"

\* C23: in get_environmental_status the two readings are fetched one after
\* the other: the weather fetch is issued only once the pollutant fetch has
\* delivered, and the two are never in flight together.  Both have delivered
\* before the calculations run; if either fails the handler ends with the
\* failure, without having calculated and without a status.
C23_FetchedInTurn ==
    call.op \in StatusOps =>
        LET both == /\ call.fetch.air_quality = "done" /\ call.air_quality_data # None
                    /\ call.fetch.weather = "done" /\ call.weather_data # None
        IN  /\ ~(call.fetch.air_quality = "in_flight" /\ call.fetch.weather = "in_flight")
            /\ call.fetch.weather # "not_started" => call.fetch.air_quality = "done"
            /\ (call.at = "calculate" \/ call.calculated) => both
            /\ response.status \in {"success", "returned"} => both
            /\ "failed" \in {call.fetch.air_quality, call.fetch.weather} =>
                   /\ call.at = "responded"
                   /\ ~call.calculated
                   /\ response = failure(call.op)

\* The pollutant reading arrived, the weather fetch then failed: the data
\* service's method raised without calculating.
C23_Witness ==
    /\ call.op = "CopernicusDataService.get_environmental_status"
    /\ call.fetch.air_quality = "done"
    /\ call.fetch.weather = "failed"
    /\ ~call.calculated
    /\ response = [status |-> "raised"]

\* C24: under the default heat and cold thresholds no returned list, of
\* either engine, holds both a heat_wave and a cold_wave warning, and every
\* returned list has at most four warnings: at most one from each of the
\* temperature, UV, precipitation and pollen rule groups.
C24_NotHotAndCold ==
    ( /\ WarningsCalled
      /\ ret.status = "ok"
      /\ environ["HEAT_WAVE_TEMP_THRESHOLD"] = None
      /\ environ["COLD_WAVE_TEMP_THRESHOLD"] = None ) =>
        /\ ~(Severities("heat_wave") # <<>> /\ Severities("cold_wave") # <<>>)
        /\ Len(ret.warnings) <= 4
        /\ Len(Severities("heat_wave")) + Len(Severities("cold_wave")) <= 1
        /\ Len(Severities("uv_warning")) <= 1
        /\ Len(Severities("snowstorm")) + Len(Severities("heavy_rain")) <= 1
        /\ Len(Severities("pollen")) <= 1

\* Four warnings under the default thresholds: -1 degree in August with
\* precipitation, a high UV index and humidity.
C24_Witness ==
    /\ pc = "calculate_warnings"
    /\ ret.status = "ok"
    /\ environ["HEAT_WAVE_TEMP_THRESHOLD"] = None
    /\ environ["COLD_WAVE_TEMP_THRESHOLD"] = None
    /\ now_month = 8
    /\ request.arg.temperature = Some(-1)
    /\ Len(ret.warnings) = 4
    /\ Severities("cold_wave") = <<"high">>
    /\ Severities("heat_wave") = <<>>

(***************************************************************************)
(* CopernicusDataService.get_weather_data                                  *)
(***************************************************************************)
\* A float read from a dataset or computed from one: NaN (what xarray gives
\* for a masked value) or a number, kept in hundredths of its unit.
NaN == [nan |-> TRUE]
Float(v) == [nan |-> FALSE, v |-> v]
IsNumber(x) == x # None /\ ~x.nan

\* Python's builtin max(a, b) and min(a, b): b replaces a only if b > a
\* (b < a), and every comparison with NaN is False.
builtin_max(a, b) == IF ~a.nan /\ ~b.nan /\ b.v > a.v THEN b ELSE a
builtin_min(a, b) == IF ~a.nan /\ ~b.nan /\ b.v < a.v THEN b ELSE a

\* 6.112 * np.exp(17.67 * t / (t + 243.5)) in thousandths of a hPa, for the
\* temperatures (hundredths of a degree Celsius) of the model's datasets.
\* At -243.5 the division raises ZeroDivisionError.
saturation_vapor_pressure(celsius) ==
    CASE celsius = 0     -> Some(6112)
      [] celsius = 1000  -> Some(12272)
      [] celsius = 2000  -> Some(23369)
      [] celsius = -24350 -> None

\* _calculate_humidity_from_dewpoint: the relative humidity in hundredths of
\* a percent, clamped with min(max(rh, 0), 100); None on an exception.
calculate_humidity_from_dewpoint(temperature, dewpoint) ==
    IF temperature.nan \/ dewpoint.nan
    THEN Some(builtin_min(builtin_max(NaN, Float(0)), Float(100 * 100)))
    ELSE LET es_t == saturation_vapor_pressure(temperature.v)
             es_d == saturation_vapor_pressure(dewpoint.v)
         IN  IF es_t = None \/ es_d = None THEN None
             ELSE LET rh == Float((Val(es_d) * 100 * 100) \div Val(es_t))
                  IN  Some(builtin_min(builtin_max(rh, Float(0)), Float(100 * 100)))

\* value - 273.15, the dataset's value in hundredths of a kelvin.
KelvinToCelsius(value) ==
    IF value.nan THEN NaN ELSE Float(value.v - KelvinOffset)

\* get_weather_data from the two downloaded datasets on: ds maps each of
\* t2m, d2m (hundredths of a kelvin), tp (thousandths of a metre) and ssrd
\* (W/m2) to None when the variable is not in its file and to Some(value)
\* otherwise.  precipitation is in hundredths of a millimetre, uv_index in
\* hundredths.
get_weather_data(ds) ==
    LET temperature == IF ds.t2m # None THEN Some(KelvinToCelsius(Val(ds.t2m)))
                       ELSE None
        humidity == IF ds.d2m # None /\ temperature # None
                    THEN calculate_humidity_from_dewpoint(
                             Val(temperature), KelvinToCelsius(Val(ds.d2m)))
                    ELSE None
        precipitation == IF ds.tp = None THEN None
                         ELSE IF Val(ds.tp).nan THEN Some(NaN)
                         ELSE Some(Float(Val(ds.tp).v * 100))
        uv_index == IF ds.ssrd = None THEN None
                    ELSE LET uv == IF Val(ds.ssrd).nan THEN NaN
                                   ELSE Float((Val(ds.ssrd).v * 100) \div 25)
                         IN  Some(builtin_min(builtin_max(uv, Float(0)),
                                              Float(15 * 100)))
    IN  [status |-> "returned",
         value |-> [temperature |-> temperature, humidity |-> humidity,
                    precipitation |-> precipitation, uv_index |-> uv_index,
                    timestamp |-> TargetMonth]]

\* What the files can hold for each variable.
DatasetKelvin == {KelvinOffset + c : c \in {-24350, 0, 1000, 2000}}
OptionalFloat(S) == {None, Some(NaN)} \cup {Some(Float(v)) : v \in S}
Datasets ==
    [t2m : OptionalFloat(DatasetKelvin), d2m : OptionalFloat(DatasetKelvin),
     tp : OptionalFloat({0, 5}), ssrd : OptionalFloat({-50, 0, 100, 375, 500})]

\* get_weather_data is called: the downloads deliver datasets, or a retrieve
\* or a download raises and the method re-raises.
GetWeatherData ==
    /\ call = NoCall
    /\ \/ \E ds \in Datasets :
              /\ call' = [op |-> "get_weather_data", dataset |-> ds]
              /\ response' = get_weather_data(ds)
       \/ /\ call' = [op |-> "get_weather_data", dataset |-> None]
          /\ response' = [status |-> "raised"]
    /\ UNCHANGED <<now_month, environ, now, db>>
    /\ UNCHANGED calculator_vars

NextWeatherData == GetWeatherData

SpecWeatherData == InitAqi /\ [][NextWeatherData]_vars

\* C25: every reading get_weather_data returns has humidity None or within
\* [0, 100] and uv_index None or within [0, 15], and a humidity only if both
\* t2m and d2m were extracted.
C25_HumidityAndUvInRange ==
    (call.op = "get_weather_data" /\ response.status = "returned") =>
        LET humidity == response.value.humidity
            uv_index == response.value.uv_index
        IN  /\ humidity # None =>
                   /\ IsNumber(Val(humidity))
                   /\ 0 <= Val(humidity).v /\ Val(humidity).v <= 100 * 100
                   /\ call.dataset.t2m # None /\ call.dataset.d2m # None
            /\ uv_index # None =>
                   /\ IsNumber(Val(uv_index))
                   /\ 0 <= Val(uv_index).v /\ Val(uv_index).v <= 15 * 100

(***************************************************************************)
(* Two AQI calculations side by side                                       *)
(***************************************************************************)
\* The other of the two implementations is called with the same reading.
CalculateOther ==
    /\ pc \in {"calculate_aqi", "svc_calculate_aqi"}
    /\ again = NotCalled
    /\ again' = [kind |-> "other", arg |-> request.arg,
                 result |-> IF pc = "calculate_aqi"
                            THEN svc_calculate_aqi(request.arg)
                            ELSE calculate_aqi(request.arg)]
    /\ UNCHANGED <<now_month, environ, request, pc, ret>>
    /\ UNCHANGED handler_vars

\* The same implementation is called with a reading in which one pollutant,
\* the others being 0, is one grid point higher.
CalculateHigher ==
    /\ pc \in {"calculate_aqi", "svc_calculate_aqi"}
    /\ again = NotCalled
    /\ DOMAIN request.arg = Pollutants
    /\ \E p \in Pollutants :
          /\ request.arg[p] >= 0
          /\ request.arg[p] < Top(p) + Beyond
          /\ \A q \in Pollutants \ {p} : request.arg[q] = 0
          /\ LET higher == [request.arg EXCEPT ![p] = @ + 1]
             IN  again' = [kind |-> "higher", arg |-> higher,
                           result |-> IF pc = "calculate_aqi"
                                      THEN calculate_aqi(higher)
                                      ELSE svc_calculate_aqi(higher)]
    /\ UNCHANGED <<now_month, environ, request, pc, ret>>
    /\ UNCHANGED handler_vars

NextPair ==
    \/ ReceiveAirQuality
    \/ CalculateAqi
    \/ SvcCalculateAqi
    \/ CalculateOther
    \/ CalculateHigher

SpecPair == InitAqi /\ [][NextPair]_vars

\* C26: the sub-index of a pollutant does not decrease when its
\* concentration, >= 0, rises (by one grid point, and so by any number).
C26_Monotone ==
    (again # NotCalled /\ again.kind = "higher") =>
        \A p \in Pollutants :
            ret.components[p] <= again.result.components[p]

\* C27: on a reading that carries all six pollutants the two
\* implementations both return, with the same six sub-indices and the same
\* overall value.
C27_ImplementationsAgree ==
    (again # NotCalled /\ again.kind = "other" /\ DOMAIN request.arg = Pollutants) =>
        /\ ret.status = "ok"
        /\ again.result.status = "ok"
        /\ again.result.components = ret.components
        /\ again.result.overall = ret.overall

\* Both implementations ran on PM10 at 37.8, where int() cuts
\* 34.99 to 34, and both returned 34.
C27_Witness ==
    /\ pc = "calculate_aqi"
    /\ again # NotCalled
    /\ again.kind = "other"
    /\ request.arg = Sweep("pm10", C(37, 8))
    /\ ret.components["pm10"] = 34
    /\ again.result.components["pm10"] = 34
    /\ again.result.overall = 34

(***************************************************************************)
(* The environmental_data collection                                       *)
(***************************************************************************)
\* Stored records at most; the id of a record is its place in db.
MaxRecords == 2
\* The clock, in hours, runs from 0 to MaxNow.
MaxNow == 1

\* Coordinates are hundredths of a degree.
Degrees(d) == d * 100

OptionalFields ==
    {"air_quality", "weather", "pollen", "uv_index", "air_pressure",
     "wind_speed", "wind_direction", "precipitation"}

\* A location dict with the keys "lat" and "lon": a key it lacks is None.
NoLocation == [lat |-> None, lon |-> None]
Locations ==
    { NoLocation,
      [lat |-> Some(0), lon |-> Some(0)],
      [lat |-> Some(Degrees(1)), lon |-> None] }

\* The sets of optional fields a request body supplies.
SuppliedSets == { {}, {"uv_index"}, {"air_quality", "precipitation"} }

\* EnvironmentalDataCreate(...).dict(): every field of the model, a field the
\* body leaves out with its default None.
EnvironmentalDataCreate(location, supplied, value) ==
    LET given(f) == IF f \in supplied THEN Some(value) ELSE None
    IN  [location |-> location,
         air_quality |-> given("air_quality"),
         weather |-> given("weather"),
         pollen |-> given("pollen"),
         uv_index |-> given("uv_index"),
         air_pressure |-> given("air_pressure"),
         wind_speed |-> given("wind_speed"),
         wind_direction |-> given("wind_direction"),
         precipitation |-> given("precipitation")]

\* EnvironmentalData(**data.dict(), timestamp=datetime.utcnow())
EnvironmentalData(data, timestamp) ==
    [location |-> data.location,
     timestamp |-> timestamp,
     air_quality |-> data.air_quality,
     weather |-> data.weather,
     pollen |-> data.pollen,
     uv_index |-> data.uv_index,
     air_pressure |-> data.air_pressure,
     wind_speed |-> data.wind_speed,
     wind_direction |-> data.wind_direction,
     precipitation |-> data.precipitation]

\* for key, value in update_data.items(): setattr(data, key, value)
setattr_items(data, update_data) ==
    [location |-> update_data.location,
     timestamp |-> data.timestamp,
     air_quality |-> update_data.air_quality,
     weather |-> update_data.weather,
     pollen |-> update_data.pollen,
     uv_index |-> update_data.uv_index,
     air_pressure |-> update_data.air_pressure,
     wind_speed |-> update_data.wind_speed,
     wind_direction |-> update_data.wind_direction,
     precipitation |-> update_data.precipitation]

\* bool(entry.location): a dict is true when it has a key.
truthy(location) == location # NoLocation
\* entry.location.get(key, 0)
get(location, key) == IF location[key] = None THEN 0 ELSE Val(location[key])
abs(x) == IF x < 0 THEN -x ELSE x

\* lat_diff <= radius_km/111.32, both sides times 111.32 * 100
lat_within(lat_diff, radius_km) == lat_diff * 11132 <= radius_km * 10000
\* lon_diff <= radius_km/(111.32 * abs(lat)) for a latitude other than 0, both
\* sides times the positive 111.32 * abs(lat) * 10000
lon_within(lon_diff, radius_km, lat) ==
    lon_diff * 11132 * abs(lat) <= radius_km * 1000000

\* EnvironmentalData.find(EnvironmentalData.timestamp >= start_time).to_list()
find_since(start_time) ==
    LET recent(entry) == entry.timestamp >= start_time
    IN  SelectSeq(db, recent)

\* get_environmental_data_by_location: the loop over the found entries.  The
\* division by 111.32 * abs(lat) is evaluated for an entry with a location
\* that passes the latitude test, and raises when lat is 0.
get_environmental_data_by_location(lat, lon, radius_km, hours) ==
    LET start_time == now - hours
        data == find_since(start_time)
        lat_diff(entry) == abs(get(entry.location, "lat") - lat)
        lon_diff(entry) == abs(get(entry.location, "lon") - lon)
        divides(entry) ==
            /\ truthy(entry.location)
            /\ lat_within(lat_diff(entry), radius_km)
        kept(entry) ==
            /\ divides(entry)
            /\ lon_within(lon_diff(entry), radius_km, lat)
    IN  IF lat = 0 /\ \E i \in 1..Len(data) : divides(data[i])
        THEN [status |-> "raised", error |-> "ZeroDivisionError"]
        ELSE [status |-> "returned", value |-> SelectSeq(data, kept)]

QueryLatitudes == {Degrees(-90), 0, Degrees(1)}
QueryLongitudes == {0, 8}
QueryRadii == {5}
QueryHours == {0, 24}
DataIds == 1..(MaxRecords + 1)

\* POST /: create_environmental_data stamps and inserts the record.
CreateData(location, supplied) ==
    /\ Len(db) < MaxRecords
    /\ LET data == EnvironmentalDataCreate(location, supplied, 1)
           environmental_data == EnvironmentalData(data, now)
       IN  /\ db' = Append(db, environmental_data)
           /\ call' = [op |-> "create_data", data |-> data]
           /\ response' = [status |-> "returned", value |-> environmental_data]
    /\ UNCHANGED now
    /\ UNCHANGED <<now_month, environ>>
    /\ UNCHANGED calculator_vars

\* GET /location
GetDataByLocation(lat, lon, radius_km, hours) ==
    /\ call' = [op |-> "get_data_by_location", lat |-> lat, lon |-> lon,
                radius_km |-> radius_km, hours |-> hours, utcnow |-> now]
    /\ response' = get_environmental_data_by_location(lat, lon, radius_km, hours)
    /\ UNCHANGED <<now, db>>
    /\ UNCHANGED <<now_month, environ>>
    /\ UNCHANGED calculator_vars

\* PUT /{data_id}: update_environmental_data sets every item of
\* update_data.dict() on the record and saves it; 404 when there is none.
UpdateData(data_id, update_data) ==
    /\ call' = [op |-> "update_data", data_id |-> data_id,
                update_data |-> update_data]
    /\ \/ /\ data_id \in 1..Len(db)
          /\ LET data == setattr_items(db[data_id], update_data)
             IN  /\ db' = [db EXCEPT ![data_id] = data]
                 /\ response' = [status |-> "returned", value |-> data]
       \/ /\ data_id \notin 1..Len(db)
          /\ db' = db
          /\ response' = [status |-> "http_error", status_code |-> 404]
    /\ UNCHANGED now
    /\ UNCHANGED <<now_month, environ>>
    /\ UNCHANGED calculator_vars

\* An hour passes.
HourPasses ==
    /\ now < MaxNow
    /\ now' = now + 1
    /\ UNCHANGED <<call, response, db>>
    /\ UNCHANGED <<now_month, environ>>
    /\ UNCHANGED calculator_vars

NextStore ==
    \/ \E location \in Locations, supplied \in SuppliedSets :
          CreateData(location, supplied)
    \/ \E lat \in QueryLatitudes, lon \in QueryLongitudes,
          radius_km \in QueryRadii, hours \in QueryHours :
          GetDataByLocation(lat, lon, radius_km, hours)
    \/ \E data_id \in DataIds, location \in Locations, supplied \in SuppliedSets :
          UpdateData(data_id, EnvironmentalDataCreate(location, supplied, 2))
    \/ HourPasses

SpecStore == InitAqi /\ [][NextStore]_vars

\* C28: a query by location, at any latitude from -90 to 90 and whatever is
\* stored, completes without an error, and every record it returns has a
\* location, a timestamp >= now - hours (now read when the query starts), a
\* latitude difference of at most
\* radius_km/111.32 and a longitude difference of at most
\* radius_km/(111.32*|lat|).
C28_CompletesAndFilters ==
    call.op = "get_data_by_location" =>
        /\ response.status = "returned"
        /\ \A i \in 1..Len(response.value) :
              LET entry == response.value[i]
                  lat_of == IF entry.location.lat = None THEN 0
                            ELSE entry.location.lat[1]
                  lon_of == IF entry.location.lon = None THEN 0
                            ELSE entry.location.lon[1]
                  lat_diff == IF lat_of >= call.lat THEN lat_of - call.lat
                              ELSE call.lat - lat_of
                  lon_diff == IF lon_of >= call.lon THEN lon_of - call.lon
                              ELSE call.lon - lon_of
                  lat_size == IF call.lat >= 0 THEN call.lat ELSE -call.lat
              IN  /\ entry.location # NoLocation
                  /\ entry.timestamp >= call.utcnow - call.hours
                  /\ 11132 * lat_diff <= 10000 * call.radius_km
                  /\ 11132 * lat_size * lon_diff <= 1000000 * call.radius_km

\* C29: an update of a stored record sets the fields the body supplies and
\* leaves every optional field the body leaves unset, and the timestamp, as
\* they were; an update of an unknown id changes no record and answers 404.
C29_UpdateKeepsUnsetFields ==
    [][\A data_id \in DataIds, location \in Locations, supplied \in SuppliedSets :
          UpdateData(data_id, EnvironmentalDataCreate(location, supplied, 2)) =>
              IF data_id \in 1..Len(db)
              THEN /\ Len(db') = Len(db)
                   /\ \A i \in (1..Len(db)) \ {data_id} : db'[i] = db[i]
                   /\ db'[data_id].timestamp = db[data_id].timestamp
                   /\ db'[data_id].location = location
                   /\ \A f \in supplied : db'[data_id][f] = Some(2)
                   /\ \A f \in OptionalFields \ supplied :
                         db'[data_id][f] = db[data_id][f]
              ELSE /\ db' = db
                   /\ response'.status = "http_error"
                   /\ response'.status_code = 404]_vars

====
